---- MODULE Spec2Model ----
(***************************************************************************)
(* Model of the SEO analysis dashboard (app.py and utilities/).            *)
(*                                                                         *)
(* Python strings are sequences of one-character strings, so that          *)
(* substring search, split and the regular expressions of the code are     *)
(* computed character by character.  Python's None is the one-element      *)
(* sequence <<"None">>, which is no string (its element has 4 characters). *)
(***************************************************************************)
EXTENDS Integers, Sequences, FiniteSets, TLC

VARIABLES
    \* -- extract_metrics called on its own (SpecExtract)
    text,              \* the report text handed to extract_metrics
    metrics,           \* the dict it returned
    \* -- get_top_competitor called on its own (SpecCompetitor)
    serp,              \* what the SERP request produced
    our_domain,        \* the domain to exclude
    search_results,    \* the list built by the parsing loop
    competitor,        \* the function's return value
    \* -- the names of app.py's script (Spec), three of them also the
    \*    arguments of compare_articles called on its own (SpecCompare)
    article_url,
    keyword,
    competitor_url,
    comparison_result,
    calls,             \* the external calls issued so far in this run
    \* -- the rest of the script's names and of the run's state (Spec)
    pc,                \* where the script stands
    homepage_url,
    mobile_report,
    desktop_report,
    mobile_data,
    desktop_data,
    html_content,
    ai_report,
    export_row,        \* the one-row frame given to st.download_button
    trace,             \* the stages entered so far in this run
    raised,            \* the exceptions that reached the handler's try block
    banners,           \* st.error calls of the except clause in this run
    warnings,          \* st.warning calls in this run
    \* -- one call of get_lighthouse, command by command (SpecLighthouse)
    target_url,
    lh_pc,             \* where the call stands
    driver,            \* the remote session: "none", "open" or "quit"
    report_text,
    desktop_report_text,
    lh_return,         \* the pair the return statement evaluated
    lh_exception,      \* the command whose exception is propagating
    quits              \* driver.quit() calls

extractVars == <<text, metrics>>
finderVars == <<serp, our_domain, search_results, competitor>>
runVars == <<article_url, keyword, competitor_url, comparison_result, calls>>
handlerVars ==
    <<pc, homepage_url, mobile_report, desktop_report, mobile_data,
      desktop_data, html_content, ai_report, export_row, trace, raised,
      banners, warnings>>

lighthouseVars ==
    <<target_url, lh_pc, driver, report_text, desktop_report_text, lh_return,
      lh_exception, quits>>

vars == <<extractVars, finderVars, runVars, handlerVars, lighthouseVars>>

\* a variable that holds nothing yet
Unassigned == <<"Unassigned">>

\* the parts of the state a specification does not use
ExtractIdle ==
    /\ text = Unassigned
    /\ metrics = Unassigned

FinderIdle ==
    /\ serp = Unassigned
    /\ our_domain = Unassigned
    /\ search_results = Unassigned
    /\ competitor = Unassigned

HandlerIdle ==
    /\ pc = "idle"
    /\ homepage_url = Unassigned
    /\ mobile_report = Unassigned
    /\ desktop_report = Unassigned
    /\ mobile_data = Unassigned
    /\ desktop_data = Unassigned
    /\ html_content = Unassigned
    /\ ai_report = Unassigned
    /\ export_row = << >>
    /\ trace = << >>
    /\ raised = << >>
    /\ banners = 0
    /\ warnings = 0

LighthouseIdle ==
    /\ target_url = Unassigned
    /\ lh_pc = "idle"
    /\ driver = "none"
    /\ report_text = Unassigned
    /\ desktop_report_text = Unassigned
    /\ lh_return = Unassigned
    /\ lh_exception = "none"
    /\ quits = 0

RunIdle ==
    /\ article_url = Unassigned
    /\ keyword = Unassigned
    /\ competitor_url = Unassigned
    /\ comparison_result = Unassigned
    /\ calls = << >>
    /\ HandlerIdle

-----------------------------------------------------------------------------
(* Strings                                                                 *)

None == <<"None">>
EmptyStr == << >>
NL == "\n"

Truthy(s) == s # None /\ s # EmptyStr

Digits == {"0", "1", "2", "3", "4", "5", "6", "7", "8", "9"}

IsDigit(c) == c \in Digits

DigitVal(c) ==
    CASE c = "0" -> 0 [] c = "1" -> 1 [] c = "2" -> 2 [] c = "3" -> 3
      [] c = "4" -> 4 [] c = "5" -> 5 [] c = "6" -> 6 [] c = "7" -> 7
      [] c = "8" -> 8 [] c = "9" -> 9

\* int(s) for a string of decimal digits
RECURSIVE int(_)
int(s) ==
    IF Len(s) = 0 THEN 0
    ELSE 10 * int(SubSeq(s, 1, Len(s) - 1)) + DigitVal(s[Len(s)])

\* lit occurs in s starting at position p (1-based)
LiteralAt(s, p, lit) ==
    /\ p >= 1
    /\ p + Len(lit) - 1 <= Len(s)
    /\ \A k \in 1..Len(lit) : s[p + k - 1] = lit[k]

SetMin(S) == CHOOSE x \in S : \A y \in S : x <= y
SetMax(S) == CHOOSE x \in S : \A y \in S : x >= y

\* str.find(sub): the 0-based offset of the first occurrence, -1 when none
find(s, sub) ==
    LET hits == {p \in 1..(Len(s) + 1) : LiteralAt(s, p, sub)}
    IN  IF hits = {} THEN -1 ELSE SetMin(hits) - 1

\* sub in s
Contains(s, sub) == find(s, sub) # -1

RECURSIVE Flatten(_)
Flatten(ss) == IF ss = << >> THEN << >> ELSE Head(ss) \o Flatten(Tail(ss))

-----------------------------------------------------------------------------
(* Metric Extractor: app.py, extract_metrics                               *)

MetricNames == {"Performance", "Accessibility", "Best Practices", "SEO"}

Label(m) ==
    CASE m = "Performance" ->
           <<"P", "e", "r", "f", "o", "r", "m", "a", "n", "c", "e">>
      [] m = "Accessibility" ->
           <<"A", "c", "c", "e", "s", "s", "i", "b", "i", "l", "i", "t", "y">>
      [] m = "Best Practices" ->
           <<"B", "e", "s", "t", " ", "P", "r", "a", "c", "t", "i", "c", "e", "s">>
      [] m = "SEO" -> <<"S", "E", "O">>

\* patterns[m] is (\d+)\n<label>: the literal that follows the digit group
patterns(m) == <<NL>> \o Label(m)

\* The ends k of the matches of (\d+)<tail> that start at i: s[i..k] are
\* digits and tail follows at k+1.
MatchEnds(s, i, tail) ==
    {k \in i..Len(s) :
        /\ \A d \in i..k : IsDigit(s[d])
        /\ LiteralAt(s, k + 1, tail)}

\* (mutant) the search keeps the last match instead of the first
re_search_last(tail, s) ==
    LET starts == {i \in 1..Len(s) : MatchEnds(s, i, tail) # {}}
    IN  IF starts = {} THEN None
        ELSE LET k == SetMax(UNION {MatchEnds(s, i, tail) : i \in starts})
                 i == SetMin({b \in starts : k \in MatchEnds(s, b, tail)})
             IN  SubSeq(s, i, k)

\* re.search(r'(\d+)<tail>', s): the leftmost start, the greedy group there;
\* group(1) of the match, or None.
re_search(tail, s) ==
    LET starts == {i \in 1..Len(s) : MatchEnds(s, i, tail) # {}}
    IN  IF starts = {} THEN None
        ELSE LET i == SetMin(starts)
                 k == SetMax(MatchEnds(s, i, tail))
             IN  SubSeq(s, i, k)

\* A metric value is kept in hundredths: score / 100 is the fraction
\* score/100, so 85 stands for 0.85 and 0 for 0.0.
MetricValue(m, s) ==
    LET match == re_search(patterns(m), s)
    IN  IF match # None THEN int(match) ELSE 0

EmptyDict == [m \in {} |-> 0]

\* (mutant) the guard on an empty text is missing
extract_metrics_unguarded(s) == [m \in MetricNames |-> MetricValue(m, s)]

extract_metrics(s) ==
    IF ~Truthy(s) THEN EmptyDict
    ELSE [m \in MetricNames |-> MetricValue(m, s)]

\* The report texts tried: every concatenation of at most MaxPieces pieces.
\* The digit pieces have at most two digits, so that the integers scanned
\* stay within TLC's 32-bit integers (Python's are unbounded).
MaxPieces == 4

Pieces ==
    { <<"0">>, <<"8", "5">>, <<"1", "5">>, <<NL>>, <<"x">> }
    \cup { patterns(m) : m \in MetricNames }

PieceSeqs == UNION { [1..n -> Pieces] : n \in 0..MaxPieces }

Texts == { Flatten(ps) : ps \in PieceSeqs }

InitExtract ==
    /\ LighthouseIdle
    /\ text \in Texts \cup {None}
    /\ metrics = Unassigned
    /\ FinderIdle
    /\ RunIdle

\* the call extract_metrics(text)
ExtractMetrics ==
    /\ metrics = Unassigned
    /\ metrics' = extract_metrics(text)
    /\ UNCHANGED <<text, finderVars, runVars, handlerVars, lighthouseVars>>

NextExtract == ExtractMetrics

SpecExtract == InitExtract /\ [][NextExtract]_vars

-----------------------------------------------------------------------------
(* Competitor Finder: utilities/compare_pages.py, get_top_competitor       *)

S_https == <<"h", "t", "t", "p", "s">>
S_http == <<"h", "t", "t", "p">>
S_aclk == <<"a", "c", "l", "k">>

OwnLink ==
    <<"h", "t", "t", "p", "s", ":", "/", "/", "e", "x", "a", "m", "p", "l",
      "e", ".", "c", "o", "m", "/", "x">>
OtherLink ==
    <<"h", "t", "t", "p", "s", ":", "/", "/", "o", "t", "h", "e", "r", ".",
      "c", "o", "m", "/", "y">>
RivalLink ==
    <<"h", "t", "t", "p", "s", ":", "/", "/", "r", "i", "v", "a", "l", ".",
      "c", "o", "m", "/", "p", "o", "s", "t">>
AdLink ==
    <<"h", "t", "t", "p", "s", ":", "/", "/", "a", "d", "s", ".", "c", "o",
      "m", "/", "a", "c", "l", "k">>
RelativeLink ==
    <<"/", "u", "r", "l", "?", "q", "=", "h", "t", "t", "p", "s", ":", "/",
      "/", "r", "e", "l", ".", "c", "o", "m">>
PlainHttpLink ==
    <<"h", "t", "t", "p", ":", "/", "/", "p", "l", "a", "i", "n", ".", "c",
      "o", "m", "/", "a">>
ExampleDomain == <<"e", "x", "a", "m", "p", "l", "e", ".", "c", "o", "m">>
OtherDomain == <<"o", "t", "h", "e", "r", ".", "c", "o", "m">>

\* result.find('a') found no anchor
NoAnchor == <<"NoAnchor">>

\* One <div class="g"> of the results page: href is the anchor's href (None
\* when the anchor has none, NoAnchor when there is no anchor), title and
\* description the texts of the h3 and the snippet div (None when the
\* element is missing).
Block(h, t, d) == [href |-> h, title |-> t, description |-> d]

BlockPool ==
    { Block(OwnLink, <<"T">>, <<"D">>),
      Block(OtherLink, <<"T">>, None),
      Block(RivalLink, None, <<"D">>),
      Block(AdLink, <<"T">>, <<"D">>),
      Block(RelativeLink, None, None),
      Block(PlainHttpLink, <<"T">>, <<"D">>),
      Block(EmptyStr, None, None),
      Block(None, None, None),
      Block(NoAnchor, None, None) }

\* lines 138-147: an anchor, a non-empty href, and the three find tests
ValidLink(link) ==
    /\ link # NoAnchor
    /\ Truthy(link)
    /\ find(link, S_https) # -1
    /\ find(link, S_http) = 0
    /\ find(link, S_aclk) = -1

\* (mutant) the position counter advances for every result block
RECURSIVE ParseResults_countall(_, _)
ParseResults_countall(blocks, position) ==
    IF blocks = << >> THEN << >>
    ELSE LET b == Head(blocks)
         IN  IF ValidLink(b.href)
             THEN << [link |-> b.href, position |-> position + 1,
                      title |-> b.title, description |-> b.description] >>
                  \o ParseResults_countall(Tail(blocks), position + 1)
             ELSE ParseResults_countall(Tail(blocks), position + 1)

\* lines 135-170: the loop over all_data, position being the counter's value
\* before the block
RECURSIVE ParseResults(_, _)
ParseResults(blocks, position) ==
    IF blocks = << >> THEN << >>
    ELSE LET b == Head(blocks)
         IN  IF ValidLink(b.href)
             THEN << [link |-> b.href, position |-> position + 1,
                      title |-> b.title, description |-> b.description] >>
                  \o ParseResults(Tail(blocks), position + 1)
             ELSE ParseResults(Tail(blocks), position)

\* (mutant) the own-domain test is missing
FirstCompetitor_any(results, domain) ==
    IF results = << >> THEN None ELSE results[1].link

\* lines 173-177: the first result whose link does not contain our_domain
FirstCompetitor(results, domain) ==
    LET ok == {i \in 1..Len(results) : ~Contains(results[i].link, domain)}
    IN  IF ok = {} THEN None ELSE results[SetMin(ok)].link

\* What the SERP request produced: raised (a transport exception, a missing
\* key), or a response with a status code and the result blocks of its page.
Response(r, st, bl) == [raised |-> r, status |-> st, blocks |-> bl]

\* get_top_competitor(keyword, our_domain) given the outcome of its request:
\* the list it built and the value it returns
get_top_competitor(resp, domain) ==
    IF resp.raised THEN [results |-> << >>, ret |-> None]
    ELSE IF resp.status = 200
         THEN LET results == ParseResults(resp.blocks, 0)
              IN  [results |-> results, ret |-> FirstCompetitor(results, domain)]
         ELSE [results |-> << >>, ret |-> None]

\* The result pages tried: at most MaxResults blocks
MaxResults == 3

Pages == UNION { [1..n -> BlockPool] : n \in 0..MaxResults }

Responses ==
    { Response(FALSE, 200, bl) : bl \in Pages }
    \cup { Response(FALSE, 403, << >>), Response(TRUE, 0, << >>) }

Domains == { ExampleDomain, OtherDomain, EmptyStr }

InitCompetitor ==
    /\ LighthouseIdle
    /\ serp \in Responses
    /\ our_domain \in Domains
    /\ search_results = Unassigned
    /\ competitor = Unassigned
    /\ ExtractIdle
    /\ RunIdle

\* the call get_top_competitor(keyword, our_domain)
GetTopCompetitor ==
    /\ competitor = Unassigned
    /\ LET out == get_top_competitor(serp, our_domain)
       IN  /\ search_results' = out.results
           /\ competitor' = out.ret
    /\ UNCHANGED <<lighthouseVars, extractVars, runVars, handlerVars, serp, our_domain>>

NextCompetitor == GetTopCompetitor

SpecCompetitor == InitCompetitor /\ [][NextCompetitor]_vars

-----------------------------------------------------------------------------
(* Content Fetcher: utilities/compare_pages.py, fetch_html_content and     *)
(* fetch_page_content                                                      *)

S_https_scheme == <<"h", "t", "t", "p", "s", ":", "/", "/">>
S_http_scheme == <<"h", "t", "t", "p", ":", "/", "/">>

startswith(s, prefix) == LiteralAt(s, 1, prefix)

RECURSIVE join(_, _)
join(sep, ss) ==
    IF ss = << >> THEN << >>
    ELSE IF Len(ss) = 1 THEN ss[1]
    ELSE ss[1] \o sep \o join(sep, Tail(ss))

\* A fetched page, as the two selections of the code see it: main, the texts
\* of the main/article/div elements with class content, main or body; hp, the
\* h1, h2, h3 and p elements in document order.
Tag(n, t) == [name |-> n, text |-> t]

\* str(tag)
Markup(tag) ==
    <<"<">> \o tag.name \o <<">">> \o tag.text \o <<"<", "/">> \o tag.name
    \o <<">">>

PageWithMain ==
    [main |-> << <<"b", "o", "d", "y">> >>,
     hp |-> << Tag(<<"h", "1">>, <<"T">>), Tag(<<"p">>, <<"a", "b">>) >>]
PageHeadings ==
    [main |-> << >>,
     hp |-> << Tag(<<"h", "2">>, <<"S">>), Tag(<<"p">>, <<"c">>) >>]
PageBare == [main |-> << >>, hp |-> << >>]

PagePool == { PageWithMain, PageHeadings, PageBare }

\* What a request to the scraping proxy produced
PageResponse(r, st, pg) == [raised |-> r, status |-> st, page |-> pg]

PageResponses ==
    { PageResponse(FALSE, 200, pg) : pg \in PagePool }
    \cup { PageResponse(FALSE, 403, PageBare), PageResponse(TRUE, 0, PageBare) }

\* One external call: the function that issued it, the service, what was
\* asked, whether it succeeded (no exception, status 200), and whether it
\* raised an exception
Call(f, svc, tgt, success, exc) ==
    [fn |-> f, service |-> svc, target |-> tgt, ok |-> success,
     raised |-> exc]

Succeeded(resp) == ~resp.raised /\ resp.status = 200

\* fetch_html_content(url) given the outcome of its request: the pair it
\* returns and the call it issued
fetch_html_content(url, resp) ==
    LET u == IF startswith(url, S_http_scheme) \/ startswith(url, S_https_scheme)
             THEN url ELSE S_https_scheme \o url
        collected_html ==
            Flatten([i \in 1..Len(resp.page.hp) |-> Markup(resp.page.hp[i])])
    IN  [url |-> u,
         html |-> IF Succeeded(resp) THEN collected_html ELSE None,
         calls |-> << Call("fetch_html_content", "proxy", u, Succeeded(resp),
                         resp.raised) >>]

PageText(pg) ==
    LET main_content ==
            IF pg.main # << >> THEN pg.main
            ELSE [i \in 1..Len(pg.hp) |-> pg.hp[i].text]
    IN  join(<<" ">>, main_content)

\* (mutant) a failed request is issued a second time
fetch_page_content_retry(url, resp) ==
    [ret |-> IF Succeeded(resp) THEN PageText(resp.page) ELSE None,
     calls |-> IF Succeeded(resp)
               THEN << Call("fetch_page_content", "proxy", url, TRUE,
                            FALSE) >>
               ELSE << Call("fetch_page_content", "proxy", url, FALSE,
                            resp.raised),
                       Call("fetch_page_content", "proxy", url, FALSE,
                            resp.raised) >>]

\* fetch_page_content(url) given the outcome of its request
fetch_page_content(url, resp) ==
    [ret |-> IF Succeeded(resp) THEN PageText(resp.page) ELSE None,
     calls |-> << Call("fetch_page_content", "proxy", url, Succeeded(resp),
                       resp.raised) >>]

-----------------------------------------------------------------------------
(* Comparison Reporter: utilities/compare_pages.py, compare_articles       *)

CouldNotFind ==
    <<"C", "o", "u", "l", "d", " ", "n", "o", "t", " ", "f", "i", "n",
      "d", " ", "c", "o", "m", "p", "e", "t", "i", "t", "o", "r", " ",
      "U", "R", "L">>
ErrorFetching ==
    <<"E", "r", "r", "o", "r", " ", "f", "e", "t", "c", "h", "i", "n",
      "g", " ", "p", "a", "g", "e", " ", "c", "o", "n", "t", "e", "n",
      "t">>

\* s.split(c) for a one-character separator
RECURSIVE split(_, _)
split(s, c) ==
    LET cut == {i \in 1..Len(s) : s[i] = c}
    IN  IF cut = {} THEN << s >>
        ELSE LET i == SetMin(cut)
             IN  << SubSeq(s, 1, i - 1) >> \o split(SubSeq(s, i + 1, Len(s)), c)

\* What a request to the generative endpoint produced: an exception, or the
\* response text
GenResponse(r, t) == [raised |-> r, text |-> t]

GenResponses ==
    { GenResponse(TRUE, EmptyStr), GenResponse(FALSE, EmptyStr),
      GenResponse(FALSE, <<"r", "e", "p", "o", "r", "t">>) }

\* the outcomes of the three requests compare_articles may issue
CompareEnv(o, c, g) == [own |-> o, comp |-> c, gen |-> g]

\* (mutant) the pages are fetched before the competitor URL is looked at
compare_articles_fetchfirst(our_url, their_url, main_keyword, env) ==
    LET ours == fetch_page_content(our_url, env.own)
        theirs == fetch_page_content(their_url, env.comp)
    IN  IF ~Truthy(ours.ret) \/ ~Truthy(theirs.ret)
        THEN [ret |-> ErrorFetching, calls |-> ours.calls \o theirs.calls]
        ELSE [ret |-> CouldNotFind, calls |-> ours.calls \o theirs.calls]

\* (mutant) the generative request is sent whatever the fetches produced
compare_articles_nocheck(our_url, their_url, main_keyword, env) ==
    IF ~Truthy(their_url) THEN [ret |-> CouldNotFind, calls |-> << >>]
    ELSE
      LET ours == fetch_page_content(our_url, env.own)
          theirs == fetch_page_content(their_url, env.comp)
          prompt == [keyword |-> main_keyword, article1 |-> ours.ret,
                     article2 |-> theirs.ret]
      IN  [ret |-> IF env.gen.raised THEN None ELSE env.gen.text,
           calls |-> ours.calls \o theirs.calls \o
               << Call("compare_articles", "generative", prompt,
                       ~env.gen.raised, env.gen.raised) >>]

\* compare_articles(our_url, competitor_url, main_keyword) given the
\* outcomes of its requests: its return value and the calls it issued
compare_articles(our_url, their_url, main_keyword, env) ==
    LET parts == split(our_url, "/")
        \* line 243: indexing raises IndexError when the part is missing
        index_error == IF Contains(our_url, <<"/", "/">>)
                       THEN Len(parts) < 3 ELSE Len(parts) < 1
    IN  IF index_error THEN [ret |-> None, calls |-> << >>]
        ELSE IF ~Truthy(their_url)
        THEN [ret |-> CouldNotFind, calls |-> << >>]
        ELSE
          LET ours == fetch_page_content(our_url, env.own)
              theirs == fetch_page_content(their_url, env.comp)
              fetches == ours.calls \o theirs.calls
              prompt == [keyword |-> main_keyword, article1 |-> ours.ret,
                         article2 |-> theirs.ret]
          IN  IF ~Truthy(ours.ret) \/ ~Truthy(theirs.ret)
              THEN [ret |-> ErrorFetching, calls |-> fetches]
              ELSE [ret |-> IF env.gen.raised THEN None ELSE env.gen.text,
                    calls |-> fetches \o
                        << Call("compare_articles", "generative", prompt,
                                ~env.gen.raised, env.gen.raised) >>]

SiteArticle ==
    <<"h", "t", "t", "p", "s", ":", "/", "/", "s", "i", "t", "e", ".",
      "c", "o", "m", "/", "p", "o", "s", "t">>
BareArticle ==
    <<"s", "i", "t", "e", ".", "c", "o", "m", "/", "p", "o", "s", "t">>

OwnUrls == { SiteArticle, BareArticle, S_https_scheme, EmptyStr }
Keywords == { <<"k">>, EmptyStr }
CompetitorUrls == { None, EmptyStr, RivalLink, OtherLink }

InitCompare ==
    /\ LighthouseIdle
    /\ article_url \in OwnUrls
    /\ keyword \in Keywords
    /\ competitor_url \in CompetitorUrls
    /\ comparison_result = Unassigned
    /\ calls = << >>
    /\ HandlerIdle
    /\ ExtractIdle
    /\ FinderIdle

\* the call compare_articles(article_url, competitor_url, keyword)
CompareArticles ==
    /\ comparison_result = Unassigned
    /\ \E o \in PageResponses, c \in PageResponses, g \in GenResponses :
          LET out == compare_articles(article_url, competitor_url, keyword,
                                      CompareEnv(o, c, g))
          IN  /\ comparison_result' = out.ret
              /\ calls' = out.calls
    /\ UNCHANGED <<lighthouseVars, extractVars, finderVars, handlerVars, article_url, keyword,
                   competitor_url>>

NextCompare == CompareArticles

SpecCompare == InitCompare /\ [][NextCompare]_vars

-----------------------------------------------------------------------------
(* Lighthouse: utilities/lighthouse.py, get_lighthouse                     *)

\* The remote commands of get_lighthouse in program order.  The first one
\* (creating the session) stands before the try block, the others in it.
LighthouseSteps ==
    << "connect", "get", "wait_report", "read_mobile", "screenshot_mobile",
       "wait_desktop_tab", "scroll", "click", "wait_desktop_report",
       "read_desktop", "screenshot_desktop" >>

\* What the browser session does: fail is the index of the step that raises
\* (a timeout of a wait, a WebDriver error), 0 when none does; mobile and
\* desktop are the body texts read.
LighthouseEnv(f, m, d) == [fail |-> f, mobile |-> m, desktop |-> d]

\* get_lighthouse(target_url) given the session's behaviour: whether it
\* raises, the pair it returns, how often driver.quit() ran, the call issued
get_lighthouse(url, env) ==
    [raised |-> env.fail # 0,
     mobile |-> IF env.fail = 0 THEN env.mobile ELSE None,
     desktop |-> IF env.fail = 0 THEN env.desktop ELSE None,
     quits |-> IF env.fail = 1 THEN 0 ELSE 1,
     calls |-> << Call("get_lighthouse", "browser", url, env.fail = 0,
                       env.fail # 0) >>]

-----------------------------------------------------------------------------
(* Report Synthesizer: utilities/lightHTMLsum.py, generate_ai_report       *)

HtmlLimit == 3000
ReportLimit == 3000

\* s[:n]
Prefix(s, n) == SubSeq(s, 1, IF Len(s) < n THEN Len(s) ELSE n)

\* generate_ai_report(data) given the outcome of its request; nothing in it
\* catches an exception of send_message or of response.text
generate_ai_report(data, gen) ==
    LET lighthouse_data ==
            IF Truthy(data.lighthouse_data) THEN data.lighthouse_data
            ELSE EmptyStr
        html == IF Truthy(data.html_content)
                THEN Prefix(data.html_content, HtmlLimit) ELSE EmptyStr
        prompt == [website_url |-> data.website_url,
                   article_url |-> data.article_url,
                   lighthouse_data |-> lighthouse_data, html |-> html]
    IN  [raised |-> gen.raised,
         ret |-> IF gen.raised THEN None ELSE gen.text,
         calls |-> << Call("generate_ai_report", "generative", prompt,
                           ~gen.raised, gen.raised) >>]

-----------------------------------------------------------------------------
(* Dashboard: app.py, the "Start Analysis" handler                         *)

\* extract_homepage_url, for a non-empty URL whose split has the parts it
\* indexes
extract_homepage_url(url) ==
    LET parts == split(url, "/")
    IN  IF Contains(url, <<"/", "/">>)
        THEN parts[1] \o <<"/", "/">> \o parts[3]
        ELSE parts[1]

MobileHeader ==
    <<"M", "O", "B", "I", "L", "E", " ", "R", "E", "P", "O", "R", "T",
      ":", "\n">>
DesktopHeader ==
    <<"\n", "\n", "D", "E", "S", "K", "T", "O", "P", " ", "R", "E", "P",
      "O", "R", "T", ":", "\n">>

\* the stages of the handler in the order of its statements (lines 156-295)
StageOrder ==
    << "competitor", "lighthouse", "metrics", "html", "ai_report", "compare",
       "export" >>

StageIndex(st) == CHOOSE i \in 1..Len(StageOrder) : StageOrder[i] = st

\* (mutant) after the AI report the script goes back to the HTML fetch
NextStage_loop(st) ==
    IF st = "ai_report" THEN "html"
    ELSE IF StageIndex(st) = Len(StageOrder) THEN "done"
    ELSE StageOrder[StageIndex(st) + 1]

\* where the script stands after a stage that raised nothing
NextStage(st) ==
    IF StageIndex(st) = Len(StageOrder) THEN "done"
    ELSE StageOrder[StageIndex(st) + 1]

\* where the script stands after an exception in the try block (line 154):
\* in the except clause (line 297)
OnRaise(st) == "except"

Exception(f, k) == [from |-> f, kind |-> k]

\* the inputs of a run
DeepBareArticle ==
    <<"s", "i", "t", "e", ".", "c", "o", "m", "/", "a", "/", "b">>

ArticleUrls == { SiteArticle, BareArticle, DeepBareArticle, EmptyStr }

FullReport ==
    Flatten(<< <<"8", "5">>, patterns("Performance"), <<NL>>,
               <<"9", "2">>, patterns("Accessibility"), <<NL>>,
               <<"1", "0", "0">>, patterns("Best Practices"), <<NL>>,
               <<"7">>, patterns("SEO") >>)
PartialReport == Flatten(<< <<"4", "0">>, patterns("Performance") >>)

ReportTexts == { EmptyStr, FullReport, PartialReport }

LighthouseEnvs ==
    { LighthouseEnv(0, m, d) : m \in ReportTexts, d \in ReportTexts }
    \cup { LighthouseEnv(f, EmptyStr, EmptyStr) : f \in 1..Len(LighthouseSteps) }

RunPages ==
    { << Block(SiteArticle, <<"T">>, <<"D">>), Block(RivalLink, <<"T">>, None) >>,
      << Block(SiteArticle, <<"T">>, <<"D">>) >>,
      << Block(AdLink, None, None), Block(OtherLink, None, None) >> }

RunResponses ==
    { Response(FALSE, 200, bl) : bl \in RunPages }
    \cup { Response(FALSE, 403, << >>), Response(TRUE, 0, << >>) }

Init ==
    /\ LighthouseIdle
    /\ ExtractIdle
    /\ FinderIdle
    /\ RunIdle

\* (mutant) the keyword is not looked at
InputsGiven_urlonly(u, k) == Truthy(u)

\* line 152: if article_url and keyword
InputsGiven(u, k) == Truthy(u) /\ Truthy(k)

\* The button is pressed (line 151): the script runs from the top with no
\* name of an earlier run bound.  Without both inputs it only warns.
StartAnalysis ==
    /\ pc \in {"idle", "done"}
    /\ \E u \in ArticleUrls, k \in Keywords :
          /\ article_url' = u
          /\ keyword' = k
          /\ IF InputsGiven(u, k)
             THEN pc' = StageOrder[1] /\ warnings' = 0
             ELSE pc' = "done" /\ warnings' = 1
    /\ competitor_url' = Unassigned
    /\ comparison_result' = Unassigned
    /\ calls' = << >>
    /\ homepage_url' = Unassigned
    /\ mobile_report' = Unassigned
    /\ desktop_report' = Unassigned
    /\ mobile_data' = Unassigned
    /\ desktop_data' = Unassigned
    /\ html_content' = Unassigned
    /\ ai_report' = Unassigned
    /\ export_row' = << >>
    /\ trace' = << >>
    /\ raised' = << >>
    /\ banners' = 0
    /\ UNCHANGED <<lighthouseVars, extractVars, finderVars>>

\* lines 156-160: competitor discovery, then the homepage URL
StageCompetitor ==
    /\ pc = "competitor"
    /\ LET parts == split(article_url, "/")
       IN  IF Len(parts) < 3
           THEN \* article_url.split('/')[2] raises IndexError
                /\ raised' = Append(raised, Exception("handler", "IndexError"))
                /\ pc' = OnRaise("competitor")
                /\ UNCHANGED <<competitor_url, homepage_url, calls, trace>>
           ELSE \E resp \in RunResponses :
                /\ competitor_url' = get_top_competitor(resp, parts[3]).ret
                /\ calls' = calls \o
                       << Call("get_top_competitor", "serp", keyword,
                               Succeeded(resp), resp.raised) >>
                /\ homepage_url' = extract_homepage_url(article_url)
                /\ trace' = Append(trace, "competitor")
                /\ pc' = NextStage("competitor")
                /\ UNCHANGED raised
    /\ UNCHANGED <<lighthouseVars, extractVars, finderVars, article_url, keyword,
                   comparison_result, mobile_report, desktop_report,
                   mobile_data, desktop_data, html_content, ai_report,
                   export_row, banners, warnings>>

\* lines 162-164: the Lighthouse fetch
StageLighthouse ==
    /\ pc = "lighthouse"
    /\ \E env \in LighthouseEnvs :
          LET out == get_lighthouse(homepage_url, env)
          IN  /\ calls' = calls \o out.calls
              /\ trace' = Append(trace, "lighthouse")
              /\ IF out.raised
                 THEN /\ raised' = Append(raised,
                                      Exception("get_lighthouse", "WebDriver"))
                      /\ pc' = OnRaise("lighthouse")
                      /\ UNCHANGED <<mobile_report, desktop_report>>
                 ELSE /\ mobile_report' = out.mobile
                      /\ desktop_report' = out.desktop
                      /\ pc' = NextStage("lighthouse")
                      /\ UNCHANGED raised
    /\ UNCHANGED <<lighthouseVars, extractVars, finderVars, article_url, keyword,
                   competitor_url, comparison_result, homepage_url,
                   mobile_data, desktop_data, html_content, ai_report,
                   export_row, banners, warnings>>

\* lines 166-226: the metric parse (and the display of its result)
StageMetrics ==
    /\ pc = "metrics"
    /\ IF Truthy(mobile_report) /\ Truthy(desktop_report)
       THEN /\ mobile_data' = extract_metrics(mobile_report)
            /\ desktop_data' = extract_metrics(desktop_report)
            /\ trace' = Append(trace, "metrics")
       ELSE UNCHANGED <<mobile_data, desktop_data, trace>>
    /\ pc' = NextStage("metrics")
    /\ UNCHANGED <<lighthouseVars, extractVars, finderVars, runVars, homepage_url,
                   mobile_report, desktop_report, html_content, ai_report,
                   export_row, raised, banners, warnings>>

\* lines 228-230: the HTML fetch
StageHtml ==
    /\ pc = "html"
    /\ \E resp \in PageResponses :
          LET out == fetch_html_content(article_url, resp)
          IN  /\ html_content' = out.html
              /\ calls' = calls \o out.calls
    /\ trace' = Append(trace, "html")
    /\ pc' = NextStage("html")
    /\ UNCHANGED <<lighthouseVars, extractVars, finderVars, article_url, keyword,
                   competitor_url, comparison_result, homepage_url,
                   mobile_report, desktop_report, mobile_data, desktop_data,
                   ai_report, export_row, raised, banners, warnings>>

\* lines 231-240: the AI report
StageAiReport ==
    /\ pc = "ai_report"
    /\ IF Truthy(html_content)
       THEN \E gen \in GenResponses :
              LET combined_data ==
                      [lighthouse_data |->
                           MobileHeader \o Prefix(mobile_report, ReportLimit)
                           \o DesktopHeader
                           \o Prefix(desktop_report, ReportLimit),
                       html_content |-> html_content,
                       website_url |-> homepage_url,
                       article_url |-> article_url]
                  out == generate_ai_report(combined_data, gen)
              IN  /\ calls' = calls \o out.calls
                  /\ trace' = Append(trace, "ai_report")
                  /\ IF out.raised
                     THEN /\ raised' = Append(raised,
                                 Exception("generate_ai_report", "Generative"))
                          /\ pc' = OnRaise("ai_report")
                          /\ UNCHANGED ai_report
                     ELSE /\ ai_report' = out.ret
                          /\ pc' = NextStage("ai_report")
                          /\ UNCHANGED raised
       ELSE /\ pc' = NextStage("ai_report")
            /\ UNCHANGED <<calls, trace, raised, ai_report>>
    /\ UNCHANGED <<lighthouseVars, extractVars, finderVars, article_url, keyword,
                   competitor_url, comparison_result, homepage_url,
                   mobile_report, desktop_report, mobile_data, desktop_data,
                   html_content, export_row, banners, warnings>>

\* lines 242-250: the content comparison
StageCompare ==
    /\ pc = "compare"
    /\ IF Truthy(competitor_url)
       THEN \E o \in PageResponses, c \in PageResponses, g \in GenResponses :
              LET out == compare_articles(article_url, competitor_url, keyword,
                                          CompareEnv(o, c, g))
              IN  /\ comparison_result' = out.ret
                  /\ calls' = calls \o out.calls
                  /\ trace' = Append(trace, "compare")
                  /\ UNCHANGED warnings
       ELSE /\ warnings' = warnings + 1
            /\ UNCHANGED <<comparison_result, calls, trace>>
    /\ pc' = NextStage("compare")
    /\ UNCHANGED <<lighthouseVars, extractVars, finderVars, article_url, keyword,
                   competitor_url, homepage_url, mobile_report,
                   desktop_report, mobile_data, desktop_data, html_content,
                   ai_report, export_row, raised, banners>>

\* (mutant) every name the export reads is bound before the stages run
UnboundAtExport_never == FALSE

\* lines 259-260, 280, 284: the export reads mobile_data, desktop_data,
\* ai_report and comparison_result; one of them is unbound
UnboundAtExport ==
    \/ mobile_data = Unassigned
    \/ desktop_data = Unassigned
    \/ ai_report = Unassigned
    \/ comparison_result = Unassigned

\* lines 252-295: the export; reading a name that no statement of this run
\* bound raises NameError
StageExport ==
    /\ pc = "export"
    /\ trace' = Append(trace, "export")
    /\ IF UnboundAtExport
       THEN /\ raised' = Append(raised, Exception("handler", "NameError"))
            /\ pc' = OnRaise("export")
            /\ UNCHANGED export_row
       ELSE /\ export_row' =
                   << [article_url |-> article_url, keyword |-> keyword,
                       competitor_url |-> competitor_url,
                       mobile |-> mobile_data, desktop |-> desktop_data,
                       ai_analysis |-> ai_report,
                       competitor_analysis |-> comparison_result] >>
            /\ pc' = NextStage("export")
            /\ UNCHANGED raised
    /\ UNCHANGED <<lighthouseVars, extractVars, finderVars, runVars, homepage_url,
                   mobile_report, desktop_report, mobile_data, desktop_data,
                   html_content, ai_report, banners, warnings>>

\* (mutant) the except clause reports the error and the script goes on to
\* the export
HandleException_resume ==
    /\ pc = "except"
    /\ banners' = banners + 1
    /\ pc' = "export"
    /\ UNCHANGED <<lighthouseVars, extractVars, finderVars, runVars, homepage_url,
                   mobile_report, desktop_report, mobile_data, desktop_data,
                   html_content, ai_report, export_row, trace, raised,
                   warnings>>

\* lines 297-298: the except clause shows the banner; the script ends
HandleException ==
    /\ pc = "except"
    /\ banners' = banners + 1
    /\ pc' = "done"
    /\ UNCHANGED <<lighthouseVars, extractVars, finderVars, runVars, homepage_url,
                   mobile_report, desktop_report, mobile_data, desktop_data,
                   html_content, ai_report, export_row, trace, raised,
                   warnings>>

Next ==
    \/ StartAnalysis
    \/ StageCompetitor
    \/ StageLighthouse
    \/ StageMetrics
    \/ StageHtml
    \/ StageAiReport
    \/ StageCompare
    \/ StageExport
    \/ HandleException

Spec == Init /\ [][Next]_vars

-----------------------------------------------------------------------------
(* One call of get_lighthouse, command by command: utilities/lighthouse.py *)

StepIndex(step) ==
    CHOOSE i \in 1..Len(LighthouseSteps) : LighthouseSteps[i] = step

\* where the call stands after a command that raised nothing: at the next
\* command, after the last one at the return statement (line 90)
AfterSuccess(step) ==
    IF StepIndex(step) = Len(LighthouseSteps) THEN "return"
    ELSE LighthouseSteps[StepIndex(step) + 1]

\* (mutant) no finally clause: an exception leaves the function at once
AfterFailure_nofinally(step) == "raised"

\* where the call stands after a command that raised: the session is created
\* before the try statement (lines 54-55), every other command stands in
\* its body (lines 57-90) and is followed by the finally clause (line 92)
AfterFailure(step) == IF step = "connect" THEN "raised" ELSE "finally"

\* the commands that read the page's text (lines 68 and 88)
ReadSteps == { "read_mobile", "read_desktop" }

\* the other commands of the try body
PlainSteps ==
    { LighthouseSteps[i] : i \in 2..Len(LighthouseSteps) } \ ReadSteps

TargetUrls ==
    { extract_homepage_url(u) : u \in { SiteArticle, BareArticle, RivalLink } }

InitLighthouse ==
    /\ target_url \in TargetUrls
    /\ lh_pc = "connect"
    /\ driver = "none"
    /\ report_text = Unassigned
    /\ desktop_report_text = Unassigned
    /\ lh_return = Unassigned
    /\ lh_exception = "none"
    /\ quits = 0
    /\ ExtractIdle
    /\ FinderIdle
    /\ RunIdle

\* lines 54-55: the remote session is created
LhConnect ==
    /\ lh_pc = "connect"
    /\ \E ok \in BOOLEAN :
          IF ok
          THEN /\ driver' = "open"
               /\ lh_pc' = AfterSuccess("connect")
               /\ UNCHANGED lh_exception
          ELSE /\ lh_exception' = "connect"
               /\ lh_pc' = AfterFailure("connect")
               /\ UNCHANGED driver
    /\ UNCHANGED <<extractVars, finderVars, runVars, handlerVars, target_url,
                   report_text, desktop_report_text, lh_return, quits>>

\* lines 60-65, 69-85, 89: navigation, waits, screenshots, the tab switch
LhCommand ==
    /\ lh_pc \in PlainSteps
    /\ \E ok \in BOOLEAN :
          IF ok
          THEN /\ lh_pc' = AfterSuccess(lh_pc)
               /\ UNCHANGED lh_exception
          ELSE /\ lh_exception' = lh_pc
               /\ lh_pc' = AfterFailure(lh_pc)
    /\ UNCHANGED <<extractVars, finderVars, runVars, handlerVars, target_url,
                   driver, report_text, desktop_report_text, lh_return, quits>>

\* line 68: the text of the mobile report
LhReadMobile ==
    /\ lh_pc = "read_mobile"
    /\ \/ \E t \in ReportTexts :
             /\ report_text' = t
             /\ lh_pc' = AfterSuccess("read_mobile")
             /\ UNCHANGED lh_exception
       \/ /\ lh_exception' = "read_mobile"
          /\ lh_pc' = AfterFailure("read_mobile")
          /\ UNCHANGED report_text
    /\ UNCHANGED <<extractVars, finderVars, runVars, handlerVars, target_url,
                   driver, desktop_report_text, lh_return, quits>>

\* line 88: the text of the desktop report
LhReadDesktop ==
    /\ lh_pc = "read_desktop"
    /\ \/ \E t \in ReportTexts :
             /\ desktop_report_text' = t
             /\ lh_pc' = AfterSuccess("read_desktop")
             /\ UNCHANGED lh_exception
       \/ /\ lh_exception' = "read_desktop"
          /\ lh_pc' = AfterFailure("read_desktop")
          /\ UNCHANGED desktop_report_text
    /\ UNCHANGED <<extractVars, finderVars, runVars, handlerVars, target_url,
                   driver, report_text, lh_return, quits>>

\* line 90: the return statement evaluates the pair; the finally clause
\* runs before the function is left
LhReturn ==
    /\ lh_pc = "return"
    /\ lh_return' = <<report_text, desktop_report_text>>
    /\ lh_pc' = "finally"
    /\ UNCHANGED <<extractVars, finderVars, runVars, handlerVars, target_url,
                   driver, report_text, desktop_report_text, lh_exception,
                   quits>>

\* lines 92-94: driver.quit(); then the pending exception propagates or the
\* pair is returned; an exception of quit() itself replaces either
LhFinally ==
    /\ lh_pc = "finally"
    /\ quits' = quits + 1
    /\ driver' = "quit"
    /\ \E ok \in BOOLEAN :
          IF ok
          THEN /\ lh_pc' = IF lh_exception = "none" THEN "returned"
                           ELSE "raised"
               /\ UNCHANGED <<lh_return, lh_exception>>
          ELSE /\ lh_pc' = "raised"
               /\ lh_exception' = "quit"
               /\ lh_return' = Unassigned
    /\ UNCHANGED <<extractVars, finderVars, runVars, handlerVars, target_url,
                   report_text, desktop_report_text>>

NextLighthouse ==
    \/ LhConnect
    \/ LhCommand
    \/ LhReadMobile
    \/ LhReadDesktop
    \/ LhReturn
    \/ LhFinally

SpecLighthouse == InitLighthouse /\ [][NextLighthouse]_vars

-----------------------------------------------------------------------------
(* Claims about extract_metrics, under SpecExtract                         *)

RECURSIVE Pow10(_)
Pow10(n) == IF n = 0 THEN 1 ELSE 10 * Pow10(n - 1)

\* the number written in s[b..e], most significant digit first
RECURSIVE Decimal(_, _, _)
Decimal(s, b, e) ==
    IF b > e THEN 0
    ELSE DigitVal(s[b]) * Pow10(e - b) + Decimal(s, b + 1, e)

\* where "\n<MetricName>" stands right after a digit
Occurrences(m, s) ==
    {j \in 2..Len(s) : IsDigit(s[j - 1]) /\ LiteralAt(s, j, <<NL>> \o Label(m))}

\* the integer printed before the first occurrence: the whole run of digits
\* that ends right before the newline
FirstInteger(m, s) ==
    LET j == SetMin(Occurrences(m, s))
        b == SetMin({i \in 1..(j - 1) : \A d \in i..(j - 1) : IsDigit(s[d])})
    IN  Decimal(s, b, j - 1)

Called == metrics # Unassigned

C2_ValuesAreFractions ==
    Called => \A m \in DOMAIN metrics : metrics[m] >= 0 /\ metrics[m] <= 100

AllZero == [m \in MetricNames |-> 0]

\* C3: on an empty or absent text the result is the mapping with no keys,
\* which is not the mapping of the four metrics to 0.0.
C3_EmptyTextEmptyMapping ==
    (Called /\ ~Truthy(text)) =>
        /\ DOMAIN metrics = {}
        /\ metrics # AllZero

C3_Witness == Called /\ text = EmptyStr /\ metrics = EmptyDict

-----------------------------------------------------------------------------
(* Claims about get_top_competitor, under SpecCompetitor                   *)

\* sub occurs somewhere in s
Occurs(sub, s) ==
    \E p \in 1..(Len(s) + 1) :
        /\ p + Len(sub) - 1 <= Len(s)
        /\ SubSeq(s, p, p + Len(sub) - 1) = sub

StartsWith(s, prefix) ==
    Len(s) >= Len(prefix) /\ SubSeq(s, 1, Len(prefix)) = prefix

\* an accepted link: a string that contains "https", starts with "http" and
\* holds no ad-click marker
IsLink(h) == h # None /\ h # NoAnchor

Accepted(h) ==
    /\ IsLink(h)
    /\ Occurs(S_https, h)
    /\ StartsWith(h, S_http)
    /\ ~Occurs(S_aclk, h)

Fetched == competitor # Unassigned /\ ~serp.raised /\ serp.status = 200

\* the blocks of the page that qualify as competitor, in SERP order
Qualifying ==
    {i \in 1..Len(serp.blocks) :
        /\ Accepted(serp.blocks[i].href)
        /\ ~Occurs(our_domain, serp.blocks[i].href)}

\* C4: on a successful SERP fetch the function returns the link of the first
\* accepted result, in SERP order, that does not contain own_domain, and
\* absent when no accepted result qualifies.
C4_FirstForeignAccepted ==
    Fetched =>
        competitor = IF Qualifying = {} THEN None
                     ELSE serp.blocks[SetMin(Qualifying)].href

\* own_domain "example.com", links ["https://example.com/x",
\* "https://other.com/y"] yields "https://other.com/y"
C4_Witness ==
    /\ Fetched
    /\ our_domain = ExampleDomain
    /\ Len(serp.blocks) = 2
    /\ serp.blocks[1].href = OwnLink
    /\ serp.blocks[2].href = OtherLink
    /\ competitor = OtherLink

\* how many of the first n blocks were accepted
AcceptedBefore(n) ==
    Cardinality({i \in 1..n : Accepted(serp.blocks[i].href)})

\* C5: a link with the ad-click marker, or not starting with "http", or
\* without "https" is never returned and never listed, whatever its rank,
\* and takes no position number: the listed results are the accepted links
\* in order, numbered 1, 2, ...
C5_RejectedLinksSkipped ==
    Fetched =>
        /\ competitor # None => Accepted(competitor)
        /\ Len(search_results) = AcceptedBefore(Len(serp.blocks))
        /\ \A k \in 1..Len(search_results) :
              /\ search_results[k].position = k
              /\ Accepted(search_results[k].link)
              /\ \E i \in 1..Len(serp.blocks) :
                    /\ serp.blocks[i].href = search_results[k].link
                    /\ AcceptedBefore(i) = k

\* an ad link ranked first, a relative link second, then a competitor, which
\* gets position 1
C5_Witness ==
    /\ Fetched
    /\ Len(serp.blocks) = 3
    /\ serp.blocks[1].href = AdLink
    /\ serp.blocks[2].href = RelativeLink
    /\ serp.blocks[3].href = RivalLink
    /\ competitor = RivalLink
    /\ search_results[1].position = 1

-----------------------------------------------------------------------------
(* Claims about compare_articles, under SpecCompare                        *)

Compared == comparison_result # Unassigned

\* C6: with an absent (None or empty) competitor URL compare_articles
\* returns exactly "Could not find competitor URL" and issues no proxy fetch
\* and no generative request, whatever the own URL and the keyword.
C6_AbsentCompetitorNoFetch ==
    (Compared /\ ~Truthy(competitor_url)) =>
        /\ comparison_result = CouldNotFind
        /\ calls = << >>

\* an absent competitor with a scheme-less own URL
C6_Witness ==
    /\ Compared
    /\ competitor_url = None
    /\ article_url = BareArticle
    /\ comparison_result = CouldNotFind

-----------------------------------------------------------------------------
(* Claims about an analysis run, under Spec                                *)

Rank(order, st) == CHOOSE i \in 1..Len(order) : order[i] = st

\* the stages entered so far follow one another in the given order, none
\* of them twice
InOrder(order) ==
    \A i, j \in 1..Len(trace) :
        i < j => Rank(order, trace[i]) < Rank(order, trace[j])

SpecOrder ==
    << "lighthouse", "metrics", "html", "ai_report", "competitor", "compare",
       "export" >>

CodeOrder ==
    << "competitor", "lighthouse", "metrics", "html", "ai_report", "compare",
       "export" >>

\* C7 as stated: the stages of a run execute in the order Lighthouse fetch,
\* metric parse, HTML fetch, AI report, competitor discovery, content
\* comparison, export, and none is re-entered.
C7_StagesInSpecOrder == InOrder(SpecOrder)

\* C7 as amended: the stages of a run execute in the order competitor
\* discovery, Lighthouse fetch, metric parse, HTML fetch, AI report, content
\* comparison, export (a stage may be skipped, an exception ends the run),
\* and none is re-entered.
C7_StagesInCodeOrder == InOrder(CodeOrder)

\* a run that went through all seven stages and exported
C7_Witness == pc = "done" /\ trace = CodeOrder /\ Len(export_row) = 1

OwningFunctions ==
    { "get_lighthouse", "fetch_html_content", "fetch_page_content",
      "get_top_competitor", "generate_ai_report", "compare_articles" }

\* C8: a failure of an external call is caught inside the function that owns
\* the call; none of these functions lets an exception reach its caller.
C8_FailuresContained ==
    \A k \in 1..Len(raised) : raised[k].from \notin OwningFunctions

\* C9: an exception that reaches the handler's try block is caught once by
\* the except clause: one banner, the run ends, no export; at most one
\* exception per run; and after a run has ended, with or without error,
\* another one can be started.
C9_CaughtOnceNoExport ==
    /\ Len(raised) <= 1
    /\ banners <= Len(raised)
    /\ pc = "done" => banners = Len(raised)
    /\ raised # << >> => Len(export_row) = 0 /\ pc \in {"except", "done"}
    /\ pc = "done" => ENABLED StartAnalysis

\* a run ended by an exception of get_lighthouse
C9_Witness ==
    /\ pc = "done"
    /\ Len(raised) = 1
    /\ raised[1].from = "get_lighthouse"
    /\ banners = 1
    /\ Len(export_row) = 0

CallsOf(f) == {i \in 1..Len(calls) : calls[i].fn = f}

\* C10: in a run no external call is issued twice: one browser session, one
\* SERP fetch, one structured fetch, one main-text fetch per page, one
\* request per generative call site, also after a failure.
C10_NoRetry ==
    /\ \A i, j \in 1..Len(calls) :
          (i < j /\ calls[i].fn = calls[j].fn) =>
              calls[i].target # calls[j].target
    /\ Cardinality(CallsOf("get_lighthouse")) <= 1
    /\ Cardinality(CallsOf("get_top_competitor")) <= 1
    /\ Cardinality(CallsOf("fetch_html_content")) <= 1
    /\ Cardinality(CallsOf("fetch_page_content")) <= 2
    /\ Cardinality(CallsOf("generate_ai_report")) <= 1
    /\ Cardinality(CallsOf("compare_articles")) <= 1

\* a finished run in which the main-text fetch of the own page failed
C10_Witness ==
    /\ pc = "done"
    /\ Cardinality(CallsOf("fetch_page_content")) = 2
    /\ \E i \in CallsOf("fetch_page_content") :
          ~calls[i].ok /\ calls[i].target = article_url

-----------------------------------------------------------------------------
(* Claims about the content fetchers, under Spec                           *)

HasScheme(u) == StartsWith(u, S_http_scheme) \/ StartsWith(u, S_https_scheme)

ProxyCalls == {i \in 1..Len(calls) : calls[i].service = "proxy"}

\* C11: the URL that fetch_html_content and fetch_page_content send to the
\* scraping proxy always starts with "http://" or "https://" ("https://"
\* being prepended to a URL without scheme).
C11_ProxyUrlHasScheme == \A i \in ProxyCalls : HasScheme(calls[i].target)

\* the part of C11 that the code keeps: the structured fetch
C11_StructuredFetchHasScheme ==
    \A i \in ProxyCalls :
        calls[i].fn = "fetch_html_content" => HasScheme(calls[i].target)

-----------------------------------------------------------------------------
(* Claims about the failures of compare_articles, under SpecCompare        *)

MainTextCalls == {i \in 1..Len(calls) : calls[i].fn = "fetch_page_content"}
GenerativeCalls == {i \in 1..Len(calls) : calls[i].service = "generative"}
FetchAbsent == \E i \in MainTextCalls : ~calls[i].ok
FetchRaised == \E i \in MainTextCalls : calls[i].raised
GenerationRaised == \E i \in GenerativeCalls : calls[i].raised

\* C12: compare_articles fails closed: when the main-text fetch of the own or
\* of the competitor page yields absent it returns "Error fetching page
\* content" and sends nothing to the generative endpoint; when an exception
\* occurs during a fetch or during generation it returns absent (None).
C12_FailsClosedAbsentOnException ==
    Compared =>
        /\ FetchAbsent =>
              comparison_result = ErrorFetching /\ GenerativeCalls = {}
        /\ (FetchRaised \/ GenerationRaised) => comparison_result = None

\* C12 as the code has it: an absent main text, an exception during the fetch
\* included (fetch_page_content turns it into None), gives the fixed message
\* and no generative request; an exception during generation gives None; a
\* result other than these two is the text the generative endpoint returned.
C12_FailsClosed ==
    Compared =>
        /\ FetchAbsent =>
              comparison_result = ErrorFetching /\ GenerativeCalls = {}
        /\ FetchRaised => FetchAbsent /\ comparison_result # None
        /\ GenerationRaised => comparison_result = None
        /\ comparison_result = None => GenerationRaised

\* the competitor's fetch raised after the own page was fetched
C12_Witness ==
    /\ Compared
    /\ Len(calls) = 2
    /\ calls[1].ok
    /\ calls[2].raised
    /\ comparison_result = ErrorFetching

-----------------------------------------------------------------------------
(* Claims about the inputs of a run, under Spec                            *)

Segments == Len(split(article_url, "/"))
RunStarted == pc # "idle"
BothInputs == Truthy(article_url) /\ Truthy(keyword)

\* C13: no external call is issued in a run unless article_url and keyword
\* are both non-empty; and a run whose article_url has fewer than three
\* '/'-separated segments ends in the handler's except clause (IndexError,
\* one banner) with no external call issued and no URL derived from it.
C13_NoCallWithoutInputs ==
    /\ calls # << >> =>
          /\ RunStarted
          /\ BothInputs
          /\ Segments >= 3
    /\ (RunStarted /\ ~BothInputs) =>
          pc = "done" /\ warnings = 1 /\ trace = << >>
    /\ (pc \in {"except", "done"}
          /\ BothInputs /\ Segments < 3) =>
          /\ raised = << Exception("handler", "IndexError") >>
          /\ calls = << >>
          /\ trace = << >>
          /\ homepage_url = Unassigned
          /\ Len(export_row) = 0
          /\ pc = "done" => banners = 1

\* the run of "site.com/post" with a keyword, after its banner
C13_Witness ==
    /\ pc = "done"
    /\ article_url = BareArticle
    /\ Truthy(keyword)
    /\ banners = 1
    /\ raised = << Exception("handler", "IndexError") >>
    /\ calls = << >>

-----------------------------------------------------------------------------
(* Claims about the export of a run, under Spec                            *)

Has(v) == v # Unassigned /\ Truthy(v)
Ran(stage) == \E i \in 1..Len(trace) : trace[i] = stage
Exported == Len(export_row) = 1

\* C14: the export is reached only in a run where Lighthouse returned two
\* non-empty reports, the structured fetch returned non-empty HTML (and the
\* AI report was generated) and a competitor URL was found (and
\* compare_articles was called).  A started run in which the competitor, the
\* HTML or a Lighthouse report is missing or empty ends with one error
\* banner and no export; when such a run gets as far as the export, the
\* exception is the NameError of a name that was never bound.
C14_ExportNeedsEveryStage ==
    /\ Exported =>
          /\ Has(mobile_report) /\ Has(desktop_report)
          /\ Has(html_content) /\ Ran("ai_report") /\ ai_report # Unassigned
          /\ Has(competitor_url) /\ Ran("compare")
          /\ comparison_result # Unassigned
          /\ raised = << >> /\ banners = 0
    /\ (pc = "done" /\ BothInputs
          /\ (\/ ~Has(competitor_url) \/ ~Has(html_content)
              \/ ~Has(mobile_report) \/ ~Has(desktop_report))) =>
          /\ banners = 1
          /\ Len(raised) = 1
          /\ ~Exported
    /\ (Ran("export") /\ ~Exported) =>
          raised = << Exception("handler", "NameError") >>

\* a run with both reports, the HTML and the AI report, but no competitor:
\* it ends in the banner of the NameError, without export
C14_Witness ==
    /\ pc = "done"
    /\ Has(mobile_report) /\ Has(desktop_report)
    /\ Has(html_content) /\ ai_report # Unassigned
    /\ competitor_url = None
    /\ raised = << Exception("handler", "NameError") >>
    /\ banners = 1
    /\ ~Exported

-----------------------------------------------------------------------------
(* Claims about get_lighthouse, under SpecLighthouse                       *)

Left == lh_pc \in {"returned", "raised"}
SessionCreated == lh_pc # "connect" /\ lh_exception # "connect"

\* C15: once the remote session exists, driver.quit() is called exactly once
\* on every way out of get_lighthouse, after the return of both reports as
\* after an exception of any command of the try body, and never before the
\* function is on its way out; the function returns the pair of both report
\* texts or raises, and never returns with only one of them.
C15_SessionQuitOnce ==
    /\ quits <= 1
    /\ SessionCreated <=> driver # "none"
    /\ driver = "open" <=> (SessionCreated /\ quits = 0)
    /\ (Left /\ SessionCreated) => quits = 1 /\ driver = "quit"
    /\ (quits = 0 /\ SessionCreated) => ~Left
    /\ lh_pc = "returned" =>
          /\ lh_exception = "none"
          /\ report_text # Unassigned
          /\ desktop_report_text # Unassigned
          /\ lh_return = <<report_text, desktop_report_text>>
    /\ lh_pc = "raised" => lh_exception # "none" /\ lh_return = Unassigned

\* the wait for the desktop report timed out after the mobile report was
\* read: the session was quit once and the exception left the function
C15_Witness ==
    /\ lh_pc = "raised"
    /\ lh_exception = "wait_desktop_report"
    /\ report_text = FullReport
    /\ desktop_report_text = Unassigned
    /\ driver = "quit"
    /\ quits = 1
    /\ lh_return = Unassigned

====
